---- MODULE Spec2Model ----
(***************************************************************************)
(* Model of libhelfem/src/generate_hip_code.py: the generator of           *)
(* HIPBasis::eval_prim_dnf.  The script runs top to bottom: it builds the  *)
(* table Lider of the derivatives of Li(x)^2, prints one switch arm per    *)
(* order and a default arm.  The printed program is kept as a sequence of  *)
(* statements (out), and the printed function is then executed on a        *)
(* request, statement by statement.                                        *)
(***************************************************************************)
EXTENDS Integers, Sequences, FiniteSets, TLC

VARIABLES pc, out, Lider, order, prev, cur, funIdx, termIdx, olip, pt, reads,
          req, rpc, status, ix, fi, mats, env, acc, dnf, visited

genVars == <<pc, out, Lider, order, prev, cur, funIdx, termIdx, olip, pt, reads>>
runVars == <<req, rpc, status, ix, fi, mats, env, acc, dnf, visited>>
vars == <<pc, out, Lider, order, prev, cur, funIdx, termIdx, olip, pt, reads,
          req, rpc, status, ix, fi, mats, env, acc, dnf, visited>>

(* maxorder=10 *)
maxorder == 10

(* Bounds of the requests made of the printed function. *)
MaxRequest == 11
MaxPoints == 2
MaxNodes == 2
MaxLength == 2

(***************************************************************************)
(* Python values.                                                          *)
(***************************************************************************)

(* A dict is the sequence of its items in insertion order. *)
EmptyDict == << >>

DictHas(d, k) == \E i \in 1..Len(d) : d[i].key = k

DictIdx(d, k) == CHOOSE i \in 1..Len(d) : d[i].key = k

DictGet(d, k) == d[DictIdx(d, k)].val

(* seq[k] of Python: a negative index counts from the end. *)
PyIndex(s, k) == IF k >= 0 THEN s[k + 1] ELSE s[Len(s) + k + 1]

PyMax(t) == IF t[1] >= t[2] THEN t[1] ELSE t[2]

PyMin(t) == IF t[1] <= t[2] THEN t[1] ELSE t[2]

(* fname of get_fname(order) *)
get_fname(o) ==
    IF o > 1 THEN "d" \o ToString(o) \o "f"
    ELSE IF o = 1 THEN "df"
    ELSE "f"

(***************************************************************************)
(* The printed text.  One statement of the printed program is a record:    *)
(* op names the statement, id the identifier it declares or assigns, num   *)
(* the number printed in it, col the column offset of an assignment, refs  *)
(* the identifiers it reads, flag a yes/no property of the text.           *)
(***************************************************************************)
Stmt(op, id, num, col, refs, flag) ==
    [op |-> op, id |-> id, num |-> num, col |-> col, refs |-> refs, flag |-> flag]

(***************************************************************************)
(* The table builder.                                                      *)
(***************************************************************************)

(* Mutant: the start value of the recursion is 2. *)
ZerothDerivativeTwo == << [key |-> <<0, 0>>, val |-> 2] >>

(* Lider.append({ (0,0) : 1 }) *)
ZerothDerivative == << [key |-> <<0, 0>>, val |-> 1] >>

(* Mutant: the derivative is applied to the first factor in both branches. *)
DersSameFactor(fun) == << <<fun[1] + 1, fun[2]>>, <<fun[1] + 1, fun[2]>> >>

(* ders = [(fun[0]+1,fun[1]), (fun[0],fun[1]+1)] *)
Ders(fun) == << <<fun[1] + 1, fun[2]>>, <<fun[1], fun[2] + 1>> >>

(* Mutant: the term is added as it is, not ordered. *)
OtermUnordered(term) == term

(* oterm = (max(term), min(term)) *)
Oterm(term) == <<PyMax(term), PyMin(term)>>

(* Mutant: a key already present is overwritten instead of added to. *)
DictAddOverwrite(d, k, v) ==
    IF DictHas(d, k)
    THEN [d EXCEPT ![DictIdx(d, k)].val = v]
    ELSE Append(d, [key |-> k, val |-> v])

(* if oterm in cur: cur[oterm] += v  else: cur[oterm] = v *)
DictAdd(d, k, v) ==
    IF DictHas(d, k)
    THEN [d EXCEPT ![DictIdx(d, k)].val = @ + v]
    ELSE Append(d, [key |-> k, val |-> v])

(* range(maxorder) of the builder loop *)
BuildRange(o) == o < maxorder

NoReq == [n |-> 0, nx |-> 0, nf |-> 0, len |-> 0]

NoPt == [label |-> "", Li |-> EmptyDict, idx |-> 0, ret |-> ""]

NoAcc == [id |-> "", val |-> 0, terms |-> 0]

(* The caller's buffer before the call: one cell holding a value. *)
CallerBuffer == [rows |-> 1, cols |-> 1,
                 val |-> [c \in {<<0, 0>>} |-> 7],
                 writes |-> [c \in {<<0, 0>>} |-> 0],
                 resized |-> 0]

Init ==
    /\ pc = "prologue"
    /\ out = << >>
    /\ Lider = << >>
    /\ order = 0
    /\ prev = EmptyDict
    /\ cur = EmptyDict
    /\ funIdx = 0
    /\ termIdx = 0
    /\ olip = 0
    /\ pt = NoPt
    /\ reads = {}
    /\ req = NoReq
    /\ rpc = 0
    /\ status = "idle"
    /\ ix = 0
    /\ fi = 0
    /\ mats = [name \in {} |-> 0]
    /\ env = [name \in {} |-> 0]
    /\ acc = NoAcc
    /\ dnf = CallerBuffer
    /\ visited = {}

(* The lines printed before the table is built: the file header, the
   signature of HIPBasis::eval_prim_dnf and the head of the switch. *)
Prologue ==
    /\ pc = "prologue"
    /\ out' = << Stmt("header", "", 0, 0, << >>, FALSE),
                 Stmt("func", "eval_prim_dnf", 0, 0,
                      <<"x", "dnf", "n", "element_length">>, FALSE),
                 Stmt("switch", "", 0, 0, <<"n">>, FALSE) >>
    /\ pc' = "build_init"
    /\ UNCHANGED <<Lider, order, prev, cur, funIdx, termIdx, olip, pt, reads>>
    /\ UNCHANGED runVars

(* Lider = [] ; Lider.append({ (0,0) : 1 }) ; the loop variable starts at 0 *)
BuildInit ==
    /\ pc = "build_init"
    /\ Lider' = << ZerothDerivative >>
    /\ order' = 0
    /\ pc' = "build_loop"
    /\ UNCHANGED <<out, prev, cur, funIdx, termIdx, olip, pt, reads>>
    /\ UNCHANGED runVars

(* for order in range(maxorder): prev = deepcopy(Lider[-1]) ; cur = {} *)
BuildBegin ==
    /\ pc = "build_loop"
    /\ BuildRange(order)
    /\ prev' = PyIndex(Lider, -1)
    /\ cur' = EmptyDict
    /\ funIdx' = 1
    /\ termIdx' = 1
    /\ pc' = "build_term"
    /\ UNCHANGED <<out, Lider, order, olip, pt, reads>>
    /\ UNCHANGED runVars

(* for fun in prev: for term in ders: order the term and add *)
BuildTerm ==
    /\ pc = "build_term"
    /\ funIdx <= Len(prev)
    /\ LET fun == prev[funIdx].key
           term == Ders(fun)[termIdx]
       IN  cur' = DictAdd(cur, Oterm(term), DictGet(prev, fun))
    /\ IF termIdx < 2
       THEN termIdx' = termIdx + 1 /\ funIdx' = funIdx
       ELSE termIdx' = 1 /\ funIdx' = funIdx + 1
    /\ UNCHANGED <<pc, out, Lider, order, prev, olip, pt, reads>>
    /\ UNCHANGED runVars

(* Lider.append(cur) *)
BuildAppend ==
    /\ pc = "build_term"
    /\ funIdx > Len(prev)
    /\ Lider' = Append(Lider, cur)
    /\ order' = order + 1
    /\ pc' = "build_loop"
    /\ UNCHANGED <<out, prev, cur, funIdx, termIdx, olip, pt, reads>>
    /\ UNCHANGED runVars

(* The builder loop is exhausted: order keeps its last value, the emission
   loop rebinds it to 0. *)
BuildEnd ==
    /\ pc = "build_loop"
    /\ ~BuildRange(order)
    /\ order' = 0
    /\ pc' = "emit_loop"
    /\ UNCHANGED <<out, Lider, prev, cur, funIdx, termIdx, olip, pt, reads>>
    /\ UNCHANGED runVars

(***************************************************************************)
(* The emission loop.                                                      *)
(***************************************************************************)

(* range(0,maxorder) of the emission loop *)
EmitRange(o) == o >= 0 /\ o < maxorder

(* fname='dnf' *)
fname == "dnf"

(* print('case({}):'.format(order)) *)
CaseLabel(o) == Stmt("case", "", o, 0, << >>, FALSE)

(* dnf.zeros(x.n_elem, 2*x0.n_elem): rows x.n_elem, num times x0.n_elem columns *)
Allocate == Stmt("zeros", fname, 2, 0, <<"x", "x0">>, FALSE)

(* arma::mat {0}lip; LIPBasis::eval_prim_dnf(x, {0}lip, {1}, dummy_length); *)
EvalLip(o) == Stmt("evalprim", get_fname(o) \o "lip", o, 0, <<"x", "dummy_length">>, FALSE)

(* Mutant: the loop over the LIP levels stops one level early. *)
LipRangeShort(o, l) == l < o

(* range(order+1) of the loop over the LIP levels *)
LipRange(o, l) == l < o + 1

(* if order>0: of the df1 and df3 lines *)
HasSlope(o) == o > 0

(* double f1 = ...; [double df1 = ...;]  double f3 = ...; [double df3 = 1;] *)
Factors(o) ==
    << Stmt("scalar", "f1", 0, 0, <<"x", "x0", "lipxi">>, FALSE) >>
    \o (IF HasSlope(o) THEN << Stmt("scalar", "df1", 0, 0, <<"lipxi">>, FALSE) >> ELSE << >>)
    \o << Stmt("scalar", "f3", 0, 0, <<"x", "x0">>, FALSE) >>
    \o (IF HasSlope(o) THEN << Stmt("scalar", "df3", 0, 0, << >>, FALSE) >> ELSE << >>)

(* Mutant: the first print_term call is made for every order. *)
HasPrevAlways(o) == TRUE

(* if order: of the first print_term call *)
HasPrev(o) == o # 0

(* '{}2'.format(get_fname(k)) *)
TermLabel(k) == get_fname(k) \o "2"

(* Mutant: no coefficient is ever printed. *)
HasPrefixNever(c) == FALSE

(* if Li[term]!=1: print('{:+d} *'.format(Li[term]), end='') *)
HasPrefix(c) == c # 1

(* One pass of the loop of print_term: the optional '+c *' and the product
   of the two LIP matrices' entries.  (end='' is an argument of format, not
   of print, so a line break follows each product.) *)
TermStmt(item) ==
    Stmt("term", "", IF HasPrefix(item.val) THEN item.val ELSE 0, 0,
         << get_fname(item.key[1]) \o "lip", get_fname(item.key[2]) \o "lip" >>,
         HasPrefix(item.val))

(* Mutant: both assignments go to column 2*fi. *)
CollectSameColumn(o) ==
    IF o = 0
    THEN << Stmt("assign", fname, 0, 0, <<"f1", "f2">>, FALSE),
            Stmt("assign", fname, 0, 0, <<"f3", "f2">>, TRUE) >>
    ELSE << Stmt("assign", fname, o, 0,
                 << get_fname(1) \o "1", get_fname(o - 1) \o "2",
                    get_fname(0) \o "1", get_fname(o) \o "2" >>, FALSE),
            Stmt("assign", fname, o, 0,
                 << get_fname(1) \o "3", get_fname(o - 1) \o "2",
                    get_fname(0) \o "3", get_fname(o) \o "2" >>, TRUE) >>

(* Mutant: the factor n of the n*h'*D(n-1) part is left out. *)
CollectNoOrderFactor(o) ==
    IF o = 0
    THEN << Stmt("assign", fname, 0, 0, <<"f1", "f2">>, FALSE),
            Stmt("assign", fname, 0, 1, <<"f3", "f2">>, TRUE) >>
    ELSE << Stmt("assign", fname, 1, 0,
                 << get_fname(1) \o "1", get_fname(o - 1) \o "2",
                    get_fname(0) \o "1", get_fname(o) \o "2" >>, FALSE),
            Stmt("assign", fname, 1, 1,
                 << get_fname(1) \o "3", get_fname(o - 1) \o "2",
                    get_fname(0) \o "3", get_fname(o) \o "2" >>, TRUE) >>

(* # Collect terms: the two assignments to dnf(ix,2*fi) and dnf(ix,2*fi+1).
   flag: the right-hand side is multiplied by element_length. *)
Collect(o) ==
    IF o = 0
    THEN << Stmt("assign", fname, 0, 0, <<"f1", "f2">>, FALSE),
            Stmt("assign", fname, 0, 1, <<"f3", "f2">>, TRUE) >>
    ELSE << Stmt("assign", fname, o, 0,
                 << get_fname(1) \o "1", get_fname(o - 1) \o "2",
                    get_fname(0) \o "1", get_fname(o) \o "2" >>, FALSE),
            Stmt("assign", fname, o, 1,
                 << get_fname(1) \o "3", get_fname(o - 1) \o "2",
                    get_fname(0) \o "3", get_fname(o) \o "2" >>, TRUE) >>

(* Mutant: the arm is not closed by a break. *)
ArmEndNoBreak ==
    << Stmt("endfor_fi", "", 0, 0, << >>, FALSE),
       Stmt("endfor_ix", "", 0, 0, << >>, FALSE),
       Stmt("endblock", "", 0, 0, << >>, FALSE) >>

(* # End loops, # End function, break *)
ArmEnd ==
    << Stmt("endfor_fi", "", 0, 0, << >>, FALSE),
       Stmt("endfor_ix", "", 0, 0, << >>, FALSE),
       Stmt("endblock", "", 0, 0, << >>, FALSE),
       Stmt("break", "", 0, 0, << >>, FALSE) >>

(* default: ... throw std::logic_error(oss.str()); then the closing braces
   of the switch, the function and the two namespaces *)
DefaultArm ==
    << Stmt("default", "", 0, 0, << >>, FALSE),
       Stmt("decl", "oss", 0, 0, << >>, FALSE),
       Stmt("write", "oss", 0, 0, <<"n">>, FALSE),
       Stmt("throw", "", 0, 0, <<"oss">>, FALSE),
       Stmt("endswitch", "", 0, 0, << >>, FALSE),
       Stmt("endfunc", "", 0, 0, << >>, FALSE),
       Stmt("endnamespace", "", 0, 0, << >>, FALSE),
       Stmt("endnamespace", "", 0, 0, << >>, FALSE) >>

(* case(order): { // Allocate memory ... double dummy_length=1.0; *)
EmitArmHead ==
    /\ pc = "emit_loop"
    /\ EmitRange(order)
    /\ out' = out \o << CaseLabel(order),
                        Stmt("open", "", 0, 0, << >>, FALSE),
                        Allocate,
                        Stmt("decl", "dummy_length", 1, 0, << >>, FALSE) >>
    /\ olip' = 0
    /\ pc' = "emit_lip"
    /\ UNCHANGED <<Lider, order, prev, cur, funIdx, termIdx, pt, reads>>
    /\ UNCHANGED runVars

(* for olip in range(order+1): print the declaration and evaluation *)
EmitLip ==
    /\ pc = "emit_lip"
    /\ LipRange(order, olip)
    /\ out' = Append(out, EvalLip(olip))
    /\ olip' = olip + 1
    /\ UNCHANGED <<pc, Lider, order, prev, cur, funIdx, termIdx, pt, reads>>
    /\ UNCHANGED runVars

(* the two loop heads, the comment and the f1/df1/f3/df3 lines *)
EmitFactors ==
    /\ pc = "emit_lip"
    /\ ~LipRange(order, olip)
    /\ out' = out \o << Stmt("for_ix", "ix", 0, 0, <<"x">>, FALSE),
                        Stmt("for_fi", "fi", 0, 0, <<"x0">>, FALSE),
                        Stmt("comment", "", 0, 0, << >>, FALSE) >>
                   \o Factors(order)
    /\ pc' = "pt_prev"
    /\ UNCHANGED <<Lider, order, prev, cur, funIdx, termIdx, olip, pt, reads>>
    /\ UNCHANGED runVars

(* if order: print_term('{}2'.format(get_fname(order-1)), Lider[order-1]) *)
PrintTermPrev ==
    /\ pc = "pt_prev"
    /\ HasPrev(order)
    /\ reads' = reads \cup {order - 1}
    /\ pt' = [label |-> TermLabel(order - 1), Li |-> PyIndex(Lider, order - 1),
              idx |-> 1, ret |-> "pt_cur"]
    /\ out' = Append(out, Stmt("sumbegin", TermLabel(order - 1), 0, 0, << >>, FALSE))
    /\ pc' = "pt_body"
    /\ UNCHANGED <<Lider, order, prev, cur, funIdx, termIdx, olip>>
    /\ UNCHANGED runVars

(* order is 0: the first print_term call is skipped *)
PrintTermNoPrev ==
    /\ pc = "pt_prev"
    /\ ~HasPrev(order)
    /\ pc' = "pt_cur"
    /\ UNCHANGED <<out, Lider, order, prev, cur, funIdx, termIdx, olip, pt, reads>>
    /\ UNCHANGED runVars

(* print_term('{}2'.format(get_fname(order)), Lider[order]) *)
PrintTermCur ==
    /\ pc = "pt_cur"
    /\ reads' = reads \cup {order}
    /\ pt' = [label |-> TermLabel(order), Li |-> PyIndex(Lider, order),
              idx |-> 1, ret |-> "collect"]
    /\ out' = Append(out, Stmt("sumbegin", TermLabel(order), 0, 0, << >>, FALSE))
    /\ pc' = "pt_body"
    /\ UNCHANGED <<Lider, order, prev, cur, funIdx, termIdx, olip>>
    /\ UNCHANGED runVars

(* for term in Li: one pass of the loop of print_term *)
PrintTermItem ==
    /\ pc = "pt_body"
    /\ pt.idx <= Len(pt.Li)
    /\ out' = Append(out, TermStmt(pt.Li[pt.idx]))
    /\ pt' = [pt EXCEPT !.idx = @ + 1]
    /\ UNCHANGED <<pc, Lider, order, prev, cur, funIdx, termIdx, olip, reads>>
    /\ UNCHANGED runVars

(* print(';') and the return of print_term *)
PrintTermEnd ==
    /\ pc = "pt_body"
    /\ pt.idx > Len(pt.Li)
    /\ out' = Append(out, Stmt("sumend", pt.label, 0, 0, << >>, FALSE))
    /\ pc' = pt.ret
    /\ UNCHANGED <<Lider, order, prev, cur, funIdx, termIdx, olip, pt, reads>>
    /\ UNCHANGED runVars

(* # Collect terms ... # End loops ... break: the rest of the loop body *)
EmitCollect ==
    /\ pc = "collect"
    /\ out' = out \o Collect(order) \o ArmEnd
    /\ order' = order + 1
    /\ pc' = "emit_loop"
    /\ UNCHANGED <<Lider, prev, cur, funIdx, termIdx, olip, pt, reads>>
    /\ UNCHANGED runVars

(* the emission loop is exhausted: the default arm and the closing lines *)
EmitDefault ==
    /\ pc = "emit_loop"
    /\ ~EmitRange(order)
    /\ out' = out \o DefaultArm
    /\ pc' = "done"
    /\ UNCHANGED <<Lider, order, prev, cur, funIdx, termIdx, olip, pt, reads>>
    /\ UNCHANGED runVars

GenNext ==
    \/ Prologue \/ BuildInit \/ BuildBegin \/ BuildTerm \/ BuildAppend \/ BuildEnd
    \/ EmitArmHead \/ EmitLip \/ EmitFactors
    \/ PrintTermPrev \/ PrintTermNoPrev \/ PrintTermCur
    \/ PrintTermItem \/ PrintTermEnd \/ EmitCollect \/ EmitDefault

(***************************************************************************)
(* The printed function HIPBasis::eval_prim_dnf(x, dnf, n, element_length) *)
(* executed on a request.  The data the printed text reads from outside    *)
(* (the points x, the nodes x0, lipxi and the LIP evaluator) are fixed     *)
(* integer samples.                                                        *)
(***************************************************************************)

(* x(ix) *)
XAt(i) == 2 * i + 1

(* x0(fi) *)
X0At(f) == 3 * f

(* lipxi(fi) *)
LipxiAt(f) == f + 1

(* entry (ix,fi) of the matrix LIPBasis::eval_prim_dnf fills for level k *)
LipAt(k, i, f) == (((k + 1) * (i + 2) + 3 * f) % 7) - 3

(* the right-hand sides of the f1, df1, f3 and df3 lines *)
ScalarValue(id, i, f) ==
    IF id = "f1" THEN 1 - 2 * (XAt(i) - X0At(f)) * LipxiAt(f)
    ELSE IF id = "df1" THEN (0 - 2) * LipxiAt(f)
    ELSE IF id = "f3" THEN XAt(i) - X0At(f)
    ELSE 1

EmptyEnv == [name \in {} |-> 0]

(* the names the printed text may use without declaring them: the
   parameters of the function and the members of HIPBasis *)
Given == {"x", "dnf", "n", "element_length", "x0", "lipxi"}

Cells(r, c) == (0..(r - 1)) \X (0..(c - 1))

(* the first statement op at or after position i *)
NextOp(i, op) ==
    CHOOSE j \in i..Len(out) :
        out[j].op = op /\ \A k \in i..(j - 1) : out[k].op # op

(* the last statement op at or before position i *)
PrevOp(i, op) ==
    CHOOSE j \in 1..i :
        out[j].op = op /\ \A k \in (j + 1)..i : out[k].op # op

(* switch(n): the arm labelled n, the default arm if there is none *)
Dispatch(n) ==
    IF \E j \in 1..Len(out) : out[j].op = "case" /\ out[j].num = n
    THEN CHOOSE j \in 1..Len(out) :
            /\ out[j].op = "case" /\ out[j].num = n
            /\ \A k \in 1..(j - 1) : ~(out[k].op = "case" /\ out[k].num = n)
    ELSE NextOp(1, "default")

(* the names declared in the body of the loop that closes at position i *)
BodyNames(i) ==
    { out[k].id : k \in { j \in PrevOp(i, "for_fi")..i : out[j].op \in {"scalar", "sumend"} } }

Known(name) == name \in Given \/ name \in DOMAIN env \/ name \in DOMAIN mats

Fresh(name) == name \notin DOMAIN env /\ name \notin DOMAIN mats

Running(ops) == pc = "done" /\ status = "running" /\ out[rpc].op \in ops

(* A call of the printed function. *)
Call ==
    /\ pc = "done"
    /\ status = "idle"
    /\ \E n \in (0 - 1)..MaxRequest, nx \in 0..MaxPoints, nf \in 0..MaxNodes,
          len \in 1..MaxLength :
          /\ req' = [n |-> n, nx |-> nx, nf |-> nf, len |-> len]
          /\ rpc' = Dispatch(n)
    /\ status' = "running"
    /\ UNCHANGED <<ix, fi, mats, env, acc, dnf, visited>>
    /\ UNCHANGED genVars

(* case(k): and default: control passes the label into its arm *)
ExecLabel ==
    /\ Running({"case", "default"})
    /\ visited' = visited \cup {rpc}
    /\ rpc' = rpc + 1
    /\ UNCHANGED <<req, status, ix, fi, mats, env, acc, dnf>>
    /\ UNCHANGED genVars

(* '{', a comment, the '}' of the switch *)
ExecSkip ==
    /\ Running({"open", "comment", "endswitch"})
    /\ rpc' = rpc + 1
    /\ UNCHANGED <<req, status, ix, fi, mats, env, acc, dnf, visited>>
    /\ UNCHANGED genVars

(* the '}' of the arm's block: its declarations go out of scope *)
ExecEndBlock ==
    /\ Running({"endblock"})
    /\ mats' = EmptyEnv
    /\ env' = EmptyEnv
    /\ rpc' = rpc + 1
    /\ UNCHANGED <<req, status, ix, fi, acc, dnf, visited>>
    /\ UNCHANGED genVars

(* dnf.zeros(rows, cols) *)
ExecZeros ==
    /\ Running({"zeros"})
    /\ LET s == out[rpc]
           r == req.nx
           c == s.num * req.nf
       IN  dnf' = [rows |-> r, cols |-> c,
                   val |-> [cell \in Cells(r, c) |-> 0],
                   writes |-> [cell \in Cells(r, c) |-> 0],
                   resized |-> dnf.resized + 1]
    /\ rpc' = rpc + 1
    /\ UNCHANGED <<req, status, ix, fi, mats, env, acc, visited>>
    /\ UNCHANGED genVars

(* double dummy_length=1.0; and std::ostringstream oss; *)
ExecDecl ==
    /\ Running({"decl"})
    /\ LET s == out[rpc]
       IN  IF Fresh(s.id)
           THEN env' = (s.id :> s.num) @@ env /\ rpc' = rpc + 1 /\ status' = status
           ELSE env' = env /\ rpc' = rpc /\ status' = "illformed"
    /\ UNCHANGED <<req, ix, fi, mats, acc, dnf, visited>>
    /\ UNCHANGED genVars

(* arma::mat Xlip; LIPBasis::eval_prim_dnf(x, Xlip, k, dummy_length); *)
ExecEvalPrim ==
    /\ Running({"evalprim"})
    /\ LET s == out[rpc]
       IN  IF Fresh(s.id) /\ \A i \in 1..Len(s.refs) : Known(s.refs[i])
           THEN mats' = (s.id :> s.num) @@ mats /\ rpc' = rpc + 1 /\ status' = status
           ELSE mats' = mats /\ rpc' = rpc /\ status' = "illformed"
    /\ UNCHANGED <<req, ix, fi, env, acc, dnf, visited>>
    /\ UNCHANGED genVars

(* for(size_t ix=0; ix<x.n_elem; ix++) { *)
ExecForIx ==
    /\ Running({"for_ix"})
    /\ ix' = 0
    /\ rpc' = IF 0 < req.nx THEN rpc + 1 ELSE NextOp(rpc, "endfor_ix") + 1
    /\ UNCHANGED <<req, status, fi, mats, env, acc, dnf, visited>>
    /\ UNCHANGED genVars

(* for(size_t fi=0; fi<x0.n_elem; fi++) { *)
ExecForFi ==
    /\ Running({"for_fi"})
    /\ fi' = 0
    /\ rpc' = IF 0 < req.nf THEN rpc + 1 ELSE NextOp(rpc, "endfor_fi") + 1
    /\ UNCHANGED <<req, status, ix, mats, env, acc, dnf, visited>>
    /\ UNCHANGED genVars

(* double f1 = ...; double df1 = ...; double f3 = ...; double df3 = 1; *)
ExecScalar ==
    /\ Running({"scalar"})
    /\ LET s == out[rpc]
       IN  IF Fresh(s.id) /\ \A i \in 1..Len(s.refs) : Known(s.refs[i])
           THEN /\ env' = (s.id :> ScalarValue(s.id, ix, fi)) @@ env
                /\ rpc' = rpc + 1 /\ status' = status
           ELSE env' = env /\ rpc' = rpc /\ status' = "illformed"
    /\ UNCHANGED <<req, ix, fi, mats, acc, dnf, visited>>
    /\ UNCHANGED genVars

(* double label = *)
ExecSumBegin ==
    /\ Running({"sumbegin"})
    /\ LET s == out[rpc]
       IN  IF Fresh(s.id)
           THEN /\ acc' = [id |-> s.id, val |-> 0, terms |-> 0]
                /\ rpc' = rpc + 1 /\ status' = status
           ELSE acc' = acc /\ rpc' = rpc /\ status' = "illformed"
    /\ UNCHANGED <<req, ix, fi, mats, env, dnf, visited>>
    /\ UNCHANGED genVars

(* [+c *] Alip(ix,fi)*Blip(ix,fi): a product that follows another one needs
   the sign of its coefficient to join the sum *)
ExecTerm ==
    /\ Running({"term"})
    /\ LET s == out[rpc]
           joined == s.flag \/ acc.terms = 0
           declared == s.refs[1] \in DOMAIN mats /\ s.refs[2] \in DOMAIN mats
       IN  IF joined /\ declared
           THEN /\ acc' = [acc EXCEPT
                     !.val = @ + (IF s.flag THEN s.num ELSE 1)
                                 * LipAt(mats[s.refs[1]], ix, fi)
                                 * LipAt(mats[s.refs[2]], ix, fi),
                     !.terms = @ + 1]
                /\ rpc' = rpc + 1 /\ status' = status
           ELSE acc' = acc /\ rpc' = rpc /\ status' = "illformed"
    /\ UNCHANGED <<req, ix, fi, mats, env, dnf, visited>>
    /\ UNCHANGED genVars

(* the ';' that ends the sum: label holds its value *)
ExecSumEnd ==
    /\ Running({"sumend"})
    /\ IF acc.terms > 0
       THEN env' = (acc.id :> acc.val) @@ env /\ rpc' = rpc + 1 /\ status' = status
       ELSE env' = env /\ rpc' = rpc /\ status' = "illformed"
    /\ UNCHANGED <<req, ix, fi, mats, acc, dnf, visited>>
    /\ UNCHANGED genVars

(* dnf(ix,2*fi+col) = [num*a*b +] c*d [times element_length]; *)
ExecAssign ==
    /\ Running({"assign"})
    /\ LET s == out[rpc]
           cell == <<ix, 2 * fi + s.col>>
           declared == \A i \in 1..Len(s.refs) : s.refs[i] \in DOMAIN env
           rhs == IF Len(s.refs) = 2
                  THEN env[s.refs[1]] * env[s.refs[2]]
                  ELSE s.num * env[s.refs[1]] * env[s.refs[2]]
                       + env[s.refs[3]] * env[s.refs[4]]
           v == IF s.flag THEN rhs * req.len ELSE rhs
       IN  IF declared /\ cell \in Cells(dnf.rows, dnf.cols)
           THEN /\ dnf' = [dnf EXCEPT !.val[cell] = v, !.writes[cell] = @ + 1]
                /\ rpc' = rpc + 1 /\ status' = status
           ELSE dnf' = dnf /\ rpc' = rpc /\ status' = "illformed"
    /\ UNCHANGED <<req, ix, fi, mats, env, acc, visited>>
    /\ UNCHANGED genVars

(* the '}' of the loop over polynomials: the body's names go out of scope *)
ExecEndForFi ==
    /\ Running({"endfor_fi"})
    /\ fi' = fi + 1
    /\ env' = [name \in DOMAIN env \ BodyNames(rpc) |-> env[name]]
    /\ rpc' = IF fi + 1 < req.nf THEN PrevOp(rpc, "for_fi") + 1 ELSE rpc + 1
    /\ UNCHANGED <<req, status, ix, mats, acc, dnf, visited>>
    /\ UNCHANGED genVars

(* the '}' of the loop over points *)
ExecEndForIx ==
    /\ Running({"endfor_ix"})
    /\ ix' = ix + 1
    /\ rpc' = IF ix + 1 < req.nx THEN PrevOp(rpc, "for_ix") + 1 ELSE rpc + 1
    /\ UNCHANGED <<req, status, fi, mats, env, acc, dnf, visited>>
    /\ UNCHANGED genVars

(* break; *)
ExecBreak ==
    /\ Running({"break"})
    /\ rpc' = NextOp(rpc, "endswitch")
    /\ UNCHANGED <<req, status, ix, fi, mats, env, acc, dnf, visited>>
    /\ UNCHANGED genVars

(* oss << n << "th derivatives not implemented!\n"; *)
ExecWrite ==
    /\ Running({"write"})
    /\ IF out[rpc].id \in DOMAIN env
       THEN rpc' = rpc + 1 /\ status' = status
       ELSE rpc' = rpc /\ status' = "illformed"
    /\ UNCHANGED <<req, ix, fi, mats, env, acc, dnf, visited>>
    /\ UNCHANGED genVars

(* throw std::logic_error(oss.str()); *)
ExecThrow ==
    /\ Running({"throw"})
    /\ status' = "thrown"
    /\ UNCHANGED <<req, rpc, ix, fi, mats, env, acc, dnf, visited>>
    /\ UNCHANGED genVars

(* the '}' of the function: it returns *)
ExecReturn ==
    /\ Running({"endfunc"})
    /\ status' = "returned"
    /\ UNCHANGED <<req, rpc, ix, fi, mats, env, acc, dnf, visited>>
    /\ UNCHANGED genVars

RunNext ==
    \/ Call \/ ExecLabel \/ ExecSkip \/ ExecEndBlock \/ ExecZeros \/ ExecDecl
    \/ ExecEvalPrim \/ ExecForIx \/ ExecForFi \/ ExecScalar \/ ExecSumBegin
    \/ ExecTerm \/ ExecSumEnd \/ ExecAssign \/ ExecEndForFi \/ ExecEndForIx
    \/ ExecBreak \/ ExecWrite \/ ExecThrow \/ ExecReturn

Next == GenNext \/ RunNext

Spec == Init /\ [][Next]_vars

(***************************************************************************)
(* Definitions used to state the properties.                               *)
(***************************************************************************)

RECURSIVE DictSumTo(_, _)
DictSumTo(d, k) == IF k = 0 THEN 0 ELSE d[k].val + DictSumTo(d, k - 1)

DictSum(d) == DictSumTo(d, Len(d))

DictKeys(d) == { d[i].key : i \in 1..Len(d) }

RECURSIVE Pow2(_)
Pow2(n) == IF n = 0 THEN 1 ELSE 2 * Pow2(n - 1)

(* C(n,k) = C(n,k-1) * (n-k+1) / k *)
RECURSIVE Binomial(_, _)
Binomial(n, k) ==
    IF k = 0 THEN 1 ELSE (Binomial(n, k - 1) * (n - k + 1)) \div k

(* the levels the table holds, as the source numbers them *)
Levels == 0..(Len(Lider) - 1)

Built == pc \notin {"prologue", "build_init", "build_loop", "build_term"}

(* the first label (or the end of the text) at or after position j *)
RECURSIVE ArmStop(_)
ArmStop(j) ==
    IF j > Len(out) \/ out[j].op \in {"case", "default"} THEN j ELSE ArmStop(j + 1)

(* the statements of the arm labelled n: from its label to the next label *)
ArmStmts(n) ==
    UNION { s..(ArmStop(s + 1) - 1) :
            s \in { j \in 1..Len(out) : out[j].op = "case" /\ out[j].num = n } }

(* the text is being printed or is complete, and no call has been made *)
Printing == status = "idle"

Supported(n) == n \in 0..(maxorder - 1)

(* C1: after every append the coefficients of level n sum to 2^n, and while a
   level is built the coefficients placed so far are exactly those of the
   successors handled so far: two per term of the previous level. *)
C1_CoefficientMass ==
    /\ \A n \in Levels : DictSum(Lider[n + 1]) = Pow2(n)
    /\ pc = "build_term" =>
          DictSum(cur) = 2 * DictSumTo(prev, funIdx - 1)
                         + (IF funIdx <= Len(prev)
                            THEN (termIdx - 1) * prev[funIdx].val ELSE 0)

C1_Witness ==
    /\ Len(Lider) = maxorder + 1
    /\ DictSum(Lider[maxorder + 1]) = 1024
    /\ Len(Lider[maxorder + 1]) > 1

(* C2: every key (i,j) of every level n has i >= j >= 0 and i + j = n, and no
   key with j > i is in the level under construction at any build step. *)
C2_Canonical ==
    /\ \A n \in Levels : \A t \in DictKeys(Lider[n + 1]) :
          t[1] >= t[2] /\ t[2] >= 0 /\ t[1] + t[2] = n
    /\ \A t \in DictKeys(cur) : t[1] >= t[2] /\ t[2] >= 0
    /\ pc = "build_term" => \A t \in DictKeys(cur) : t[1] + t[2] = order + 1

C2_Witness ==
    /\ pc = "build_term"
    /\ order = maxorder - 1
    /\ <<5, 5>> \in DictKeys(cur)

(* C3 as stated: the coefficient of (k, n-k) is C(n,k) when k # n-k and
   C(n,n/2) when k = n-k. *)
C3_Original ==
    \A n \in Levels : \A i \in 1..Len(Lider[n + 1]) :
        LET t == Lider[n + 1][i]
        IN  t.val = IF t.key[1] # t.key[2]
                    THEN Binomial(n, t.key[1])
                    ELSE Binomial(n, n \div 2)

(* C3 amended: the coefficient of (k, n-k) is 2*C(n,k) when k # n-k (the two
   symmetric branches merged) and C(n,n/2) when k = n-k. *)
C3_Amended ==
    \A n \in Levels : \A i \in 1..Len(Lider[n + 1]) :
        LET t == Lider[n + 1][i]
        IN  t.val = IF t.key[1] # t.key[2]
                    THEN 2 * Binomial(n, t.key[1])
                    ELSE Binomial(n, n \div 2)

C3_Witness ==
    /\ Len(Lider) = maxorder + 1
    /\ \E i \in 1..Len(Lider[maxorder + 1]) :
          Lider[maxorder + 1][i] = [key |-> <<5, 5>>, val |-> 252]
    /\ \E i \in 1..Len(Lider[maxorder]) :
          Lider[maxorder][i] = [key |-> <<5, 4>>, val |-> 252]

(* C4: the keys of level n are exactly (n-k, k) for 0 <= k <= n/2, each held
   once; (i,j) with i > j has coefficient 2*C(n,i), (n/2,n/2) has C(n,n/2);
   level 0 is {(0,0): 1} and level 1 is {(1,0): 2}. *)
C4_Coefficients ==
    /\ \A n \in Levels :
          /\ DictKeys(Lider[n + 1]) = { <<n - k, k>> : k \in 0..(n \div 2) }
          /\ Len(Lider[n + 1]) = (n \div 2) + 1
          /\ \A t \in DictKeys(Lider[n + 1]) :
                DictGet(Lider[n + 1], t) =
                    IF t[1] > t[2] THEN 2 * Binomial(n, t[1]) ELSE Binomial(n, n \div 2)
    /\ Len(Lider) >= 1 => Lider[1] = << [key |-> <<0, 0>>, val |-> 1] >>
    /\ Len(Lider) >= 2 => Lider[2] = << [key |-> <<1, 0>>, val |-> 2] >>

C4_Witness ==
    /\ Len(Lider) = maxorder + 1
    /\ DictKeys(Lider[maxorder + 1])
          = {<<10, 0>>, <<9, 1>>, <<8, 2>>, <<7, 3>>, <<6, 4>>, <<5, 5>>}
    /\ DictGet(Lider[maxorder + 1], <<6, 4>>) = 420

(***************************************************************************)
(* Properties of the printed switch and of its execution.                  *)
(***************************************************************************)

Labels == SelectSeq(out, LAMBDA st : st.op \in {"case", "default"})

Executable ==
    {"case", "default", "open", "comment", "endswitch", "endblock", "zeros",
     "decl", "evalprim", "for_ix", "for_fi", "scalar", "sumbegin", "term",
     "sumend", "assign", "endfor_fi", "endfor_ix", "break", "write", "throw",
     "endfunc"}

Called == status # "idle"

(* C5: the printed switch has one case(k) arm per k in 0..maxorder-1, in
   increasing order, each closed by its break, then one default arm; a call
   with n in 0..maxorder-1 enters arm n only and returns, a call with any
   other n (n = maxorder among them) enters the default arm only and
   throws; no call stops anywhere else. *)
C5_Dispatch ==
    /\ pc = "done" /\ Printing =>
          /\ Len(Labels) = maxorder + 1
          /\ \A k \in 1..maxorder : Labels[k].op = "case" /\ Labels[k].num = k - 1
          /\ Labels[maxorder + 1].op = "default"
          /\ \A j \in 2..Len(out) :
                out[j].op \in {"case", "default"} =>
                    out[j - 1].op = (IF out[j].op = "case" /\ out[j].num = 0
                                     THEN "switch" ELSE "break")
          /\ Cardinality({ j \in 1..Len(out) : out[j].op = "break" }) = maxorder
    /\ Called =>
          /\ status \in (IF Supported(req.n) THEN {"running", "returned"}
                         ELSE {"running", "thrown"})
          /\ \A j \in visited :
                IF Supported(req.n)
                THEN out[j].op = "case" /\ out[j].num = req.n
                ELSE out[j].op = "default"
          /\ Cardinality(visited) <= 1
          /\ status \in {"returned", "thrown"} => Cardinality(visited) = 1
          /\ status = "running" => rpc \in 1..Len(out) /\ out[rpc].op \in Executable

C5_Witness ==
    /\ status = "thrown"
    /\ req.n = maxorder
    /\ \E j \in visited : out[j].op = "default"

(* C6: on return from a supported order the buffer was sized once, to
   x.n_elem rows and 2*x0.n_elem columns, and every cell was then assigned
   exactly once; no cell is assigned before the sizing; for an unsupported
   order the caller's buffer is as it was, throughout and at the throw. *)
C6_NoPartialResults ==
    Called =>
        /\ Supported(req.n) =>
              /\ status # "illformed"
              /\ dnf.resized = 0 => dnf = CallerBuffer
              /\ dnf.resized # 0 =>
                    /\ dnf.resized = 1
                    /\ dnf.rows = req.nx
                    /\ dnf.cols = 2 * req.nf
                    /\ \A c \in Cells(dnf.rows, dnf.cols) : dnf.writes[c] <= 1
              /\ status = "returned" =>
                    /\ dnf.resized = 1
                    /\ DOMAIN dnf.writes = Cells(req.nx, 2 * req.nf)
                    /\ \A c \in Cells(req.nx, 2 * req.nf) : dnf.writes[c] = 1
        /\ ~Supported(req.n) => dnf = CallerBuffer

C6_Witness ==
    /\ status = "returned"
    /\ req.nx = MaxPoints
    /\ req.nf = MaxNodes
    /\ req.n = maxorder - 1
    /\ \A c \in Cells(MaxPoints, 2 * MaxNodes) : dnf.writes[c] = 1

(* D(k) at point i and node f: the sum over the terms of Lider[k] of
   coefficient * eval_i * eval_j, computed from the table. *)
RECURSIVE TermSumTo(_, _, _, _)
TermSumTo(d, m, i, f) ==
    IF m = 0 THEN 0
    ELSE d[m].val * LipAt(d[m].key[1], i, f) * LipAt(d[m].key[2], i, f)
         + TermSumTo(d, m - 1, i, f)

D(k, i, f) == IF k < 0 THEN 0 ELSE TermSumTo(Lider[k + 1], Len(Lider[k + 1]), i, f)

OpsInArm(n, op) == { j \in ArmStmts(n) : out[j].op = op }

IdsInArm(n, op) == { out[j].id : j \in OpsInArm(n, op) }

(* C7: for every order n the value column holds f1*D(n) + n*df1*D(n-1) and
   the slope column (f3*D(n) + n*df3*D(n-1))*element_length; the n*h'*D(n-1)
   part, df1, df3 and the D(n-1) scalar are printed exactly when n > 0; the
   value column is never multiplied by element_length, the slope column
   always is. *)
C7_Leibniz ==
    /\ status = "returned" =>
          \A i \in 0..(req.nx - 1), f \in 0..(req.nf - 1) :
              /\ dnf.val[<<i, 2 * f>>] =
                     ScalarValue("f1", i, f) * D(req.n, i, f)
                     + req.n * ScalarValue("df1", i, f) * D(req.n - 1, i, f)
              /\ dnf.val[<<i, 2 * f + 1>>] =
                     (ScalarValue("f3", i, f) * D(req.n, i, f)
                      + req.n * ScalarValue("df3", i, f) * D(req.n - 1, i, f)) * req.len
    /\ Printing => \A n \in 0..(maxorder - 1) :
          /\ \A j \in OpsInArm(n, "assign") :
                /\ out[j].flag = (out[j].col = 1)
                /\ out[j].col \in {0, 1}
                /\ (Len(out[j].refs) = 4) = (n > 0)
                /\ Len(out[j].refs) = 4 => out[j].num = n
          /\ OpsInArm(n, "assign") # {} =>
                /\ Cardinality(OpsInArm(n, "assign")) = 2
                /\ ("df1" \in IdsInArm(n, "scalar")) = (n > 0)
                /\ ("df3" \in IdsInArm(n, "scalar")) = (n > 0)
                /\ Cardinality(OpsInArm(n, "sumend")) = (IF n > 0 THEN 2 ELSE 1)

C7_Witness ==
    /\ status = "returned"
    /\ req.n = maxorder - 1
    /\ req.nx = MaxPoints
    /\ req.nf = MaxNodes
    /\ req.len = MaxLength
    /\ dnf.val[<<1, 2>>] # 0
    /\ dnf.val[<<1, 3>>] # 0
    /\ D(req.n - 1, 1, 1) # 0

(* the arm labelled n is printed to its break *)
ArmComplete(n) == OpsInArm(n, "break") # {}

(* the identifier id is declared by a statement op of arm n before position j *)
DeclaredBefore(n, ops, id, j) ==
    \E k \in ArmStmts(n) : k < j /\ out[k].op \in ops /\ out[k].id = id

(* C8: every arm n declares one LIP matrix per level 0..n, once each and
   evaluated at that level; every product of its sums reads matrices the arm
   declared earlier, and the terms of Lider[n] and Lider[n-1] need no level
   above n; the scalars its two assignments read are exactly the scalars
   declared earlier in the arm, each declared once; no call meets an
   undeclared or redeclared name. *)
C8_Declared ==
    /\ Printing => \A n \in 0..(maxorder - 1) : ArmComplete(n) =>
          /\ Cardinality(OpsInArm(n, "evalprim")) = n + 1
          /\ { <<out[j].id, out[j].num>> : j \in OpsInArm(n, "evalprim") }
                = { <<get_fname(k) \o "lip", k>> : k \in 0..n }
          /\ Cardinality(IdsInArm(n, "evalprim")) = n + 1
          /\ \A j \in OpsInArm(n, "term") : \A r \in 1..2 :
                DeclaredBefore(n, {"evalprim"}, out[j].refs[r], j)
          /\ \A k \in {n - 1, n} \cap Levels : \A t \in DictKeys(Lider[k + 1]) :
                t[1] <= n /\ t[2] <= n
          /\ \A j \in OpsInArm(n, "assign") : \A r \in 1..Len(out[j].refs) :
                DeclaredBefore(n, {"scalar", "sumbegin"}, out[j].refs[r], j)
          /\ UNION { { out[j].refs[r] : r \in 1..Len(out[j].refs) } :
                     j \in OpsInArm(n, "assign") }
                = IdsInArm(n, "scalar") \cup IdsInArm(n, "sumbegin")
          /\ Cardinality(IdsInArm(n, "scalar") \cup IdsInArm(n, "sumbegin"))
                = Cardinality(OpsInArm(n, "scalar")) + Cardinality(OpsInArm(n, "sumbegin"))
          /\ IdsInArm(n, "scalar") \cup IdsInArm(n, "sumbegin")
                = {"f1", "f3", TermLabel(n)}
                  \cup (IF n > 0 THEN {"df1", "df3", TermLabel(n - 1)} ELSE {})
    /\ status # "illformed"

C8_Witness ==
    /\ pc = "done"
    /\ Printing
    /\ ArmComplete(maxorder - 1)
    /\ Cardinality(OpsInArm(maxorder - 1, "evalprim")) = maxorder
    /\ Cardinality(OpsInArm(maxorder - 1, "term")) = 10

(* C9: the finished table holds levels 0..maxorder; the emission loop reads
   Lider[order] and, for order > 0 only, Lider[order-1]: in all exactly the
   levels 0..maxorder-1, never level maxorder, never an index outside the
   table. *)
C9_TableDepth ==
    /\ Built => Len(Lider) = maxorder + 1
    /\ reads \subseteq 0..(maxorder - 1)
    /\ reads \subseteq Levels
    /\ maxorder \notin reads
    /\ pc = "collect" => reads = 0..order
    /\ pc = "done" => reads = 0..(maxorder - 1)

C9_Witness ==
    /\ pc = "done"
    /\ Printing
    /\ Len(Lider) = maxorder + 1
    /\ reads = 0..(maxorder - 1)

(* the sums of the printed text: the position of each 'double label =' *)
SumStarts == { j \in 1..Len(out) : out[j].op = "sumbegin" }

(* the level whose terms the sum labelled id adds up *)
LevelOf(id) == CHOOSE k \in 0..maxorder : TermLabel(k) = id

(* C10: from level 1 on every coefficient is at least 2, so every product of
   those sums is printed with its '+c *'; the coefficient 1 is that of the
   only term of level 0; a product printed without sign never follows
   another product; a printed sum holds each term of its level exactly once,
   in the table's order. *)
C10_WellFormedSums ==
    /\ \A n \in Levels \ {0} : \A i \in 1..Len(Lider[n + 1]) : Lider[n + 1][i].val >= 2
    /\ Len(Lider) >= 1 => Len(Lider[1]) = 1 /\ Lider[1][1].val = 1
    /\ Printing =>
          /\ \A j \in 1..Len(out) :
                out[j].op = "term" /\ ~out[j].flag => out[j - 1].op = "sumbegin"
          /\ \A j \in SumStarts :
                LET Li == Lider[LevelOf(out[j].id) + 1]
                    m == IF Len(out) - j < Len(Li) THEN Len(out) - j ELSE Len(Li)
                IN  /\ \A i \in 1..m :
                          /\ out[j + i].op = "term"
                          /\ out[j + i].refs = << get_fname(Li[i].key[1]) \o "lip",
                                                  get_fname(Li[i].key[2]) \o "lip" >>
                          /\ out[j + i].flag = (Li[i].val # 1)
                          /\ out[j + i].flag => out[j + i].num = Li[i].val
                    /\ Len(out) > j + Len(Li) /\ (pc # "pt_body" \/ j + Len(Li) < Len(out) - 1)
                          => out[j + Len(Li) + 1].op = "sumend"
    /\ status # "illformed"

C10_Witness ==
    /\ pc = "done"
    /\ Printing
    /\ \E j \in 1..Len(out) : out[j].op = "term" /\ ~out[j].flag
    /\ \E j \in SumStarts : out[j].id = TermLabel(maxorder - 1) /\ out[j + 6].op = "sumend"

====
